---- MODULE Spec2Model ----
(***************************************************************************)
(* simple-app-config: configuration resolution, merge, typed expansion.    *)
(*                                                                         *)
(* Strings are sequences of one-character strings, so that splitting,      *)
(* lower-casing, prefix trimming and the two regular expressions of        *)
(* expandEnvVar are computed character by character.  JavaScript values    *)
(* are tagged records:                                                     *)
(*   [t |-> "str", s]   [t |-> "num", n]   [t |-> "inf"]   [t |-> "nan"]   *)
(*   [t |-> "bool", b]  [t |-> "null"]     [t |-> "undef"]                 *)
(*   [t |-> "arr", a]   (Array)            [t |-> "obj", e]  (plain object *)
(*   as the sequence of its <<key, value>> entries, in insertion order)    *)
(*   [t |-> "map", m]   (Map)   [t |-> "set", a]   [t |-> "date", ms]      *)
(*   [t |-> "invalid_date"]     [t |-> "regexp", src]                      *)
(*   [t |-> "error", name, arg] (a thrown error)                           *)
(***************************************************************************)
EXTENDS Integers, Sequences, FiniteSets, TLC

VARIABLES
  argv,               \* process.argv: the arguments, each a string
  procEnv,            \* process.env: name -> string
  fsRev,              \* which revision of the files on disk is current
  environment,        \* Config.environment
  environments,       \* Config.environments
  envDir,             \* Config.envDir
  configDir,          \* Config.configDir
  envPaths,           \* Config.envPaths
  configPaths,        \* Config.configPaths
  defaultConfigPaths, \* Config.defaultConfigPaths (a Set, in insertion order)
  configMap,          \* Config.configMap
  alreadyConfigured,  \* Config.alreadyConfigured
  prevDotenvValues,   \* Config.prevDotenvValues
  envCache,           \* EnvParser.envCache
  pass,               \* what the last configuration pass selected and found
  last,               \* the last public call and its outcome
  changes             \* number of changes made to the process from outside

vars == <<argv, procEnv, fsRev, environment, environments, envDir, configDir,
          envPaths, configPaths, defaultConfigPaths, configMap,
          alreadyConfigured, prevDotenvValues, envCache, pass, last, changes>>

configVars == <<environment, environments, envDir, configDir, envPaths,
                configPaths, defaultConfigPaths, configMap, alreadyConfigured,
                prevDotenvValues, pass>>

-----------------------------------------------------------------------------
(* Values *)

Undefined == [t |-> "undef"]
Null == [t |-> "null"]
NaN == [t |-> "nan"]
Infinity == [t |-> "inf"]
Str(s) == [t |-> "str", s |-> s]
Num(n) == [t |-> "num", n |-> n]
Bool(b) == [t |-> "bool", b |-> b]
Arr(a) == [t |-> "arr", a |-> a]
Obj(e) == [t |-> "obj", e |-> e]
MapOf(m) == [t |-> "map", m |-> m]
Error(name, arg) == [t |-> "error", name |-> name, arg |-> arg]
IsError(v) == v.t = "error"

EmptyFcn == [x \in {} |-> x]

-----------------------------------------------------------------------------
(* Characters and strings *)

UpperChars == <<"A","B","C","D","E","F","G","H","I","J","K","L","M",
                "N","O","P","Q","R","S","T","U","V","W","X","Y","Z">>
LowerChars == <<"a","b","c","d","e","f","g","h","i","j","k","l","m",
                "n","o","p","q","r","s","t","u","v","w","x","y","z">>
DigitChars == <<"0","1","2","3","4","5","6","7","8","9">>

Range(f) == {f[i] : i \in DOMAIN f}

UpperSet == Range(UpperChars)
LowerSet == Range(LowerChars)
DigitSet == Range(DigitChars)

IsUpper(c) == c \in UpperSet
IsLower(c) == c \in LowerSet
IsDigit(c) == c \in DigitSet

\* [A-Z0-9_]
IsNameChar(c) == IsUpper(c) \/ IsDigit(c) \/ c = "_"
\* \w
IsWordChar(c) == IsUpper(c) \/ IsLower(c) \/ IsDigit(c) \/ c = "_"

ToLowerChar(c) ==
  IF IsUpper(c) THEN LowerChars[CHOOSE i \in 1..26 : UpperChars[i] = c] ELSE c

\* String.prototype.toLowerCase
ToLowerCase(s) == [i \in 1..Len(s) |-> ToLowerChar(s[i])]

IsSpace(c) == c = " "

\* The index after the longest run of [A-Z0-9_], of \w, of spaces, from i.
RECURSIVE NameRunEnd(_, _)
NameRunEnd(s, i) == IF i <= Len(s) /\ IsNameChar(s[i]) THEN NameRunEnd(s, i + 1) ELSE i

RECURSIVE WordRunEnd(_, _)
WordRunEnd(s, i) == IF i <= Len(s) /\ IsWordChar(s[i]) THEN WordRunEnd(s, i + 1) ELSE i

RECURSIVE SpaceRunEnd(_, _)
SpaceRunEnd(s, i) == IF i <= Len(s) /\ IsSpace(s[i]) THEN SpaceRunEnd(s, i + 1) ELSE i

\* String.prototype.split(sep) for a one-character separator.
RECURSIVE Split(_, _)
Split(s, sep) ==
  IF \E i \in 1..Len(s) : s[i] = sep
  THEN LET i == CHOOSE k \in 1..Len(s) : s[k] = sep /\ \A j \in 1..(k - 1) : s[j] # sep
       IN  <<SubSeq(s, 1, i - 1)>> \o Split(SubSeq(s, i + 1, Len(s)), sep)
  ELSE <<s>>

\* StringUtil.trimStringFromEnd(s, '/'): every '/' at the end is removed.
RECURSIVE trimStringFromEnd(_, _)
trimStringFromEnd(s, pattern) ==
  IF Len(s) > 0 /\ s[Len(s)] = pattern
  THEN trimStringFromEnd(SubSeq(s, 1, Len(s) - 1), pattern)
  ELSE s

-----------------------------------------------------------------------------
(* Program constants: enums of constants.ts *)

\* Object.values(enum)
Values(enum) == {enum[k] : k \in DOMAIN enum}

NestableDataTypes ==
  [String |-> <<"s","t","r","i","n","g">>, Number |-> <<"n","u","m","b","e","r">>,
   Boolean |-> <<"b","o","o","l","e","a","n">>, Date |-> <<"D","a","t","e">>,
   RegExp |-> <<"R","e","g","E","x","p">>, Object |-> <<"o","b","j","e","c","t">>]

NonNestableDataTypes ==
  [Array |-> <<"A","r","r","a","y">>, Set |-> <<"S","e","t">>, Map |-> <<"M","a","p">>]

FileTypes == [JSON |-> <<".","j","s","o","n">>]

Environments ==
  [DEVELOPMENT |-> <<"d","e","v","e","l","o","p","m","e","n","t">>,
   TESTING |-> <<"t","e","s","t","i","n","g">>,
   STAGING |-> <<"s","t","a","g","i","n","g">>,
   PRODUCTION |-> <<"p","r","o","d","u","c","t","i","o","n">>]

COMMAND_LINE_ARGS ==
  [ENV |-> <<"-","-","e","n","v","=">>,
   ENV_PATH |-> <<"-","-","e","n","v","-","p","a","t","h","=">>,
   CONFIG_PATH |-> <<"-","-","c","o","n","f","i","g","-","p","a","t","h","=">>,
   ENV_NAMES |-> <<"-","-","e","n","v","-","n","a","m","e","s","=">>,
   ENV_DIR |-> <<"-","-","e","n","v","-","d","i","r","=">>,
   CONFIG_DIR |-> <<"-","-","c","o","n","f","i","g","-","d","i","r","=">>]

ENV_ARGS ==
  [ENV |-> <<"N","O","D","E","_","E","N","V">>,
   ENV_PATH |-> <<"E","N","V","_","P","A","T","H">>,
   CONFIG_PATH |-> <<"C","O","N","F","I","G","_","P","A","T","H">>,
   ENV_NAMES |-> <<"E","N","V","_","N","A","M","E","S">>,
   ENV_DIR |-> <<"E","N","V","_","D","I","R">>,
   CONFIG_DIR |-> <<"C","O","N","F","I","G","_","D","I","R">>]

-----------------------------------------------------------------------------
(* JavaScript built-ins used by the converters, on the strings the model    *)
(* feeds them.                                                              *)

RECURSIVE DecimalString(_)
DecimalString(n) ==
  IF n < 10 THEN <<DigitChars[n + 1]>>
  ELSE DecimalString(n \div 10) \o <<DigitChars[(n % 10) + 1]>>

RECURSIVE DigitsValue(_)
DigitsValue(s) ==
  IF s = <<>> THEN 0
  ELSE 10 * DigitsValue(SubSeq(s, 1, Len(s) - 1))
       + ((CHOOSE i \in 1..10 : DigitChars[i] = s[Len(s)]) - 1)

\* typeof
TypeOf(v) ==
  CASE v.t = "str" -> NestableDataTypes.String
    [] v.t \in {"num", "inf", "nan"} -> NestableDataTypes.Number
    [] v.t = "bool" -> NestableDataTypes.Boolean
    [] v.t = "undef" -> <<"u","n","d","e","f","i","n","e","d">>
    [] OTHER -> NestableDataTypes.Object

RECURSIVE JSString(_)
\* String(v)
JSString(v) ==
  CASE v.t = "str" -> v.s
    [] v.t = "num" -> DecimalString(v.n)
    [] v.t = "inf" -> <<"I","n","f","i","n","i","t","y">>
    [] v.t = "nan" -> <<"N","a","N">>
    [] v.t = "bool" -> IF v.b THEN <<"t","r","u","e">> ELSE <<"f","a","l","s","e">>
    [] v.t = "null" -> <<"n","u","l","l">>
    [] v.t = "arr" ->
         IF v.a = <<>> THEN <<>>
         ELSE IF Len(v.a) = 1 THEN JSString(v.a[1])
         ELSE JSString(v.a[1]) \o <<",">> \o JSString(Arr(Tail(v.a)))
    [] v.t = "obj" -> <<"[","o","b","j","e","c","t"," ","O","b","j","e","c","t","]">>
    [] OTHER -> <<"u","n","d","e","f","i","n","e","d">>

\* StringToNumber: white space is trimmed; the empty string is 0.
NumberOfString(s) ==
  LET a == SpaceRunEnd(s, 1)
      body == IF a > Len(s) THEN <<>>
              ELSE LET b == CHOOSE j \in a..Len(s) :
                              /\ ~IsSpace(s[j])
                              /\ \A k \in (j + 1)..Len(s) : IsSpace(s[k])
                   IN  SubSeq(s, a, b)
  IN  IF body = <<>> THEN Num(0)
      ELSE IF \A i \in 1..Len(body) : IsDigit(body[i]) THEN Num(DigitsValue(body))
      ELSE IF body = <<"I","n","f","i","n","i","t","y">> THEN Infinity
      ELSE NaN

\* Number(v)
JSNumber(v) ==
  CASE v.t = "str" -> NumberOfString(v.s)
    [] v.t \in {"num", "inf", "nan"} -> v
    [] v.t = "bool" -> IF v.b THEN Num(1) ELSE Num(0)
    [] v.t = "null" -> Num(0)
    [] v.t = "undef" -> NaN
    [] OTHER -> NumberOfString(JSString(v))

\* The JSON texts the model uses, with the value JSON.parse gives for each.
JSONTexts ==
  << << <<"[","]">>, Arr(<<>>) >>,
     << <<"[","1","]">>, Arr(<<Num(1)>>) >>,
     << <<"[","\"","5","\"","]">>, Arr(<<Str(<<"5">>)>>) >>,
     << <<"[","\"","x","\"","]">>, Arr(<<Str(<<"x">>)>>) >>,
     << <<"{","}">>, Obj(<<>>) >>,
     << <<"{","\"","a","\"",":","\"","5","\"","}">>,
        Obj(<< <<<<"a">>, Str(<<"5">>)>> >>) >>,
     << <<"t","r","u","e">>, Bool(TRUE) >>,
     << <<"n","u","l","l">>, Null >>,
     << <<"\"","x","\"">>, Str(<<"x">>) >> >>

\* JSON.parse(text): a value, or the SyntaxError it throws.
JSONParse(text) ==
  IF \E i \in DOMAIN JSONTexts : JSONTexts[i][1] = text
  THEN JSONTexts[CHOOSE i \in DOMAIN JSONTexts : JSONTexts[i][1] = text][2]
  ELSE IF text # <<>> /\ \A i \in 1..Len(text) : IsDigit(text[i])
  THEN Num(DigitsValue(text))
  ELSE Error("SyntaxError", text)

\* Date.parse on the date strings the model uses (milliseconds), NaN otherwise.
DateParse(s) ==
  IF s = <<"1","9","7","0","-","0","1","-","0","1">> THEN Num(0) ELSE NaN

\* new Date(v)
NewDate(v) ==
  LET OfTime(ms) == IF ms.t = "num" THEN [t |-> "date", ms |-> ms.n]
                    ELSE [t |-> "invalid_date"]
  IN  OfTime(IF v.t = "str" THEN DateParse(v.s)
             ELSE IF v.t \in {"num", "inf", "nan", "bool", "null", "undef"} THEN JSNumber(v)
             ELSE DateParse(JSString(v)))

\* Patterns new RegExp rejects, among the strings the model uses.
InvalidPatterns == { <<"[">>, <<"(">>, <<"*">> }

-----------------------------------------------------------------------------
(* TypeConverter *)

TypeConversionError(value) == Error("TypeConversionError", JSString(value))
UnsupportedTypeError(type) == Error("UnsupportedTypeError", type)
UndefinedEnvVarError(key) == Error("UndefinedEnvVarError", key)
UndefinedConfigValueError(key) == Error("UndefinedConfigValueError", key)

convertToNumber(value) ==
  LET num == JSNumber(value)
  IN  IF num.t = "nan" THEN TypeConversionError(value) ELSE num

truthyValues == { <<"t">>, <<"t","r","u","e">>, <<"y">>, <<"y","e","s">>, <<"o","n">> }
falsyValues == { <<"f">>, <<"f","a","l","s","e">>, <<"n">>, <<"n","o">>, <<"o","f","f">> }

\* value.toLowerCase() is a TypeError when value is not a string.
convertToBoolean(value) ==
  IF value.t # "str" THEN Error("TypeError", <<>>)
  ELSE LET lowercaseVal == ToLowerCase(value.s)
       IN  IF lowercaseVal \in truthyValues THEN Bool(TRUE)
           ELSE IF lowercaseVal \in falsyValues THEN Bool(FALSE)
           ELSE TypeConversionError(value)

convertToDate(value) ==
  LET Checked(date) == IF date.t = "date" THEN date ELSE TypeConversionError(value)
      OfNumber(num) == IF num.t # "nan" THEN NewDate(num)
                       ELSE Checked(NewDate(value))
  IN  OfNumber(JSNumber(value))

convertToRegExp(value) ==
  IF JSString(value) \in InvalidPatterns THEN TypeConversionError(value)
  ELSE [t |-> "regexp", src |-> JSString(value)]

convertToObject(value) ==
  LET parsed == JSONParse(JSString(value))
  IN  IF IsError(parsed) THEN TypeConversionError(value) ELSE parsed

\* Names every object inherits from Object.prototype: `type in obj` is true of them.
ObjectPrototypeKeys ==
  { <<"t","o","S","t","r","i","n","g">>, <<"v","a","l","u","e","O","f">>,
    <<"c","o","n","s","t","r","u","c","t","o","r">> }

\* nestableConversionFunctions[type](value)
nestableConversionFunctions(type, value) ==
  CASE type = NestableDataTypes.String -> Str(JSString(value))
    [] type = NestableDataTypes.Number -> convertToNumber(value)
    [] type = NestableDataTypes.Boolean -> convertToBoolean(value)
    [] type = NestableDataTypes.Date -> convertToDate(value)
    [] type = NestableDataTypes.RegExp -> convertToRegExp(value)
    [] type = NestableDataTypes.Object -> convertToObject(value)
    [] OTHER -> [t |-> "inherited", of |-> type]

convertToNestableType(type, value) ==
  IF type \in Values(NestableDataTypes) \cup ObjectPrototypeKeys
  THEN nestableConversionFunctions(type, value)
  ELSE UnsupportedTypeError(type)

\* What a catch block of convertToArray, convertToSet, convertToMap rethrows.
Rethrow(error, value) ==
  IF error.name = "UnsupportedTypeError" THEN UnsupportedTypeError(error.arg)
  ELSE TypeConversionError(value)

\* The first error of a sequence of results, Undefined when there is none.
FirstError(results) ==
  IF \E i \in DOMAIN results : IsError(results[i])
  THEN results[CHOOSE i \in DOMAIN results :
                 IsError(results[i]) /\ \A j \in 1..(i - 1) : ~IsError(results[j])]
  ELSE Undefined

convertToArray(value, type) ==
  LET Converted(items) ==
        IF IsError(FirstError(items)) THEN Rethrow(FirstError(items), value)
        ELSE Arr(items)
      Parsed(array) ==
        IF IsError(array) THEN Rethrow(array, value)
        ELSE IF array.t # "arr" THEN Rethrow(TypeConversionError(value), value)
        ELSE Converted([idx \in DOMAIN array.a |->
                          IF TypeOf(array.a[idx]) = type THEN array.a[idx]
                          ELSE convertToNestableType(type, array.a[idx])])
  IN  Parsed(JSONParse(value.s))

\* new Set(array): later occurrences of an equal primitive are dropped.
RECURSIVE NewSet(_)
NewSet(a) ==
  IF a = <<>> THEN <<>>
  ELSE LET init == SubSeq(a, 1, Len(a) - 1)
           x == a[Len(a)]
       IN  IF x.t \in {"str", "num", "bool", "null", "undef", "inf"}
              /\ \E i \in DOMAIN init : init[i] = x
           THEN NewSet(init)
           ELSE NewSet(init) \o <<x>>

convertToSet(value, type) ==
  LET Converted(array) ==
        IF IsError(array) THEN Rethrow(array, value)
        ELSE [t |-> "set", a |-> NewSet(array.a)]
  IN  Converted(convertToArray(value, type))

\* Object.entries(v): the <<key, value>> pairs; it throws a TypeError for null.
ObjectEntries(v) ==
  CASE v.t = "obj" -> v.e
    [] v.t = "arr" -> [i \in DOMAIN v.a |-> <<DecimalString(i - 1), v.a[i]>>]
    [] v.t = "str" -> [i \in DOMAIN v.s |-> <<DecimalString(i - 1), Str(<<v.s[i]>>)>>]
    [] OTHER -> <<>>

\* map.set for each converted entry, in order.
RECURSIVE MapFromEntries(_)
MapFromEntries(entries) ==
  IF entries = <<>> THEN EmptyFcn
  ELSE LET init == MapFromEntries(SubSeq(entries, 1, Len(entries) - 1))
           x == entries[Len(entries)]
       IN  [k \in DOMAIN init \cup {x[1]} |-> IF k = x[1] THEN x[2] ELSE init[k]]

convertToMap(value, keyType, valueType) ==
  LET \* converted: the <<convertedKey, convertedVal>> of each entry in turn
      Converted(converted) ==
        LET steps == [n \in 1..(2 * Len(converted)) |->
                        converted[(n + 1) \div 2][IF n % 2 = 1 THEN 1 ELSE 2]]
        IN  IF IsError(FirstError(steps)) THEN Rethrow(FirstError(steps), value)
            ELSE MapOf(MapFromEntries(converted))
      Entries(entries) ==
        Converted([i \in DOMAIN entries |->
                     << convertToNestableType(keyType, Str(entries[i][1])),
                        IF TypeOf(entries[i][2]) # valueType
                        THEN convertToNestableType(valueType, Str(JSString(entries[i][2])))
                        ELSE entries[i][2] >>])
      Parsed(object) ==
        IF IsError(object) THEN Rethrow(object, value)
        ELSE IF object = Null THEN Rethrow(Error("TypeError", <<>>), value)
        ELSE Entries(ObjectEntries(object))
  IN  Parsed(JSONParse(value.s))

-----------------------------------------------------------------------------
(* EnvParser: the cache in front of process.env.  A cached value is Str(s) *)
(* or Undefined (a cached miss).                                           *)

\* A refresh that clears the cache and loads nothing.
clearedEnvCache(env) == EmptyFcn

\* A set that writes the cache only when it has no entry for the key.
setEnvValueCacheIfAbsent(cache, key, value) ==
  [k \in DOMAIN cache \cup {key} |-> IF k \in DOMAIN cache THEN cache[k] ELSE Str(value)]

\* A delete that leaves the cache as it is.
keepEnvValueCache(cache, key) == cache

\* A lookup that does not keep a miss in the cache.
getValueFromEnvForgettingMiss(cache, env, key) ==
  IF key \in DOMAIN cache /\ cache[key] # Undefined
  THEN [v |-> cache[key], cache |-> cache]
  ELSE IF key \in DOMAIN env
  THEN [v |-> Str(env[key]),
        cache |-> [k \in DOMAIN cache \cup {key} |-> IF k = key THEN Str(env[key]) ELSE cache[k]]]
  ELSE [v |-> Undefined, cache |-> cache]

\* A set that does not reach process.env.
setEnvValueNowhere(env, key, value) == env

\* refreshCache: clear, then copy every variable of process.env.
refreshEnvCache(env) == [key \in DOMAIN env |-> Str(env[key])]

\* The value and the cache after getValueFromEnv(key).
getValueFromEnv(cache, env, key) ==
  IF key \in DOMAIN cache
  THEN [v |-> cache[key], cache |-> cache]
  ELSE LET value == IF key \in DOMAIN env THEN Str(env[key]) ELSE Undefined
       IN  [v |-> value,
            cache |-> [k \in DOMAIN cache \cup {key} |->
                         IF k = key THEN value ELSE cache[k]]]

getStringFromEnv(cache, env, key) ==
  LET got == getValueFromEnv(cache, env, key)
  IN  IF got.v = Undefined
      THEN [v |-> UndefinedEnvVarError(key), cache |-> got.cache]
      ELSE [v |-> Str(JSString(got.v)), cache |-> got.cache]

\* setEnvValue / deleteEnvValue: process.env and the cache.
setEnvValueEnv(env, key, value) ==
  [k \in DOMAIN env \cup {key} |-> IF k = key THEN value ELSE env[k]]
setEnvValueCache(cache, key, value) ==
  [k \in DOMAIN cache \cup {key} |-> IF k = key THEN Str(value) ELSE cache[k]]
deleteEnvValueEnv(env, key) == [k \in DOMAIN env \ {key} |-> env[k]]
deleteEnvValueCache(cache, key) == [k \in DOMAIN cache \ {key} |-> cache[k]]

-----------------------------------------------------------------------------
(* Config.expandEnvVar *)

HasAt(s, i, c) == i <= Len(s) /\ s[i] = c

\* The pattern without its closing anchor: a typed prefix is enough.
MatchTypedUnanchored(input) ==
  LET p1 == NameRunEnd(input, 2)
      g2 == /\ HasAt(input, p1, ":") /\ HasAt(input, p1 + 1, ":")
            /\ WordRunEnd(input, p1 + 2) > p1 + 2
      p2 == IF g2 THEN WordRunEnd(input, p1 + 2) ELSE p1
  IN  IF p1 > 2
      THEN [matched |-> TRUE,
            varName |-> SubSeq(input, 2, p1 - 1),
            type |-> IF g2 THEN Str(SubSeq(input, p1 + 2, p2 - 1)) ELSE Undefined,
            subtype1 |-> Undefined,
            subtype2 |-> Undefined]
      ELSE [matched |-> FALSE]

\* input.match(/^\$([A-Z0-9_]+)(?:::(\w+))?(?::(\w+))?(?::(\w+))?$/), for an
\* input that starts with '$'.  Each optional group is tried where the one
\* before it ended; no character class contains ':', so the match is unique.
MatchTyped(input) ==
  LET \* where an optional group of `colons` colons and a word ends, tried at p:
      \* p itself when the group takes no part in the match
      GroupEnd(p, colons) ==
        IF /\ \A k \in 0..(colons - 1) : HasAt(input, p + k, ":")
           /\ WordRunEnd(input, p + colons) > p + colons
        THEN WordRunEnd(input, p + colons)
        ELSE p
      Group(from, to, colons) ==
        IF to > from THEN Str(SubSeq(input, from + colons, to - 1)) ELSE Undefined
      Groups(p1, p2, p3, p4) ==
        IF p1 > 2 /\ p4 = Len(input) + 1
        THEN [matched |-> TRUE,
              varName |-> SubSeq(input, 2, p1 - 1),
              type |-> Group(p1, p2, 2),
              subtype1 |-> Group(p2, p3, 1),
              subtype2 |-> Group(p3, p4, 1)]
        ELSE [matched |-> FALSE]
      After3(p1, p2, p3) == Groups(p1, p2, p3, GroupEnd(p3, 1))
      After2(p1, p2) == After3(p1, p2, GroupEnd(p2, 1))
      After1(p1) == After2(p1, GroupEnd(p1, 2))
  IN  After1(NameRunEnd(input, 2))

\* A parameter with a default value: the default replaces undefined.
Default(arg, default) == IF arg = Undefined THEN default ELSE arg.s

\* The switch of expandEnvVar on type.toLowerCase(): EnvParser.get<Type>.
ConvertByType(type, value, subtype1, subtype2) ==
  LET lower == ToLowerCase(type)
  IN  CASE lower = ToLowerCase(NestableDataTypes.String) -> value
        [] lower = ToLowerCase(NestableDataTypes.Number) -> convertToNumber(value)
        [] lower = ToLowerCase(NestableDataTypes.Boolean) -> convertToBoolean(value)
        [] lower = ToLowerCase(NestableDataTypes.Date) -> convertToDate(value)
        [] lower = ToLowerCase(NestableDataTypes.RegExp) -> convertToRegExp(value)
        [] lower = ToLowerCase(NestableDataTypes.Object) -> convertToObject(value)
        [] lower = ToLowerCase(NonNestableDataTypes.Array) -> convertToArray(value, Default(subtype1, NestableDataTypes.String))
        [] lower = ToLowerCase(NonNestableDataTypes.Set) -> convertToSet(value, Default(subtype1, NestableDataTypes.String))
        [] lower = ToLowerCase(NonNestableDataTypes.Map) ->
             convertToMap(value, Default(subtype1, NestableDataTypes.String), Default(subtype2, NestableDataTypes.String))
        [] OTHER -> UnsupportedTypeError(type)

\* The primary types the switch has a case for.
SwitchCases ==
  {ToLowerCase(x) : x \in Values(NestableDataTypes) \cup Values(NonNestableDataTypes)}

\* input.replace(/\$\{([A-Z0-9_]+)\}/g, getString), scanning from index i:
\* the expanded rest of the input, or the first error a lookup throws.
RECURSIVE ReplaceInline(_, _, _, _)
ReplaceInline(input, i, cache, env) ==
  IF i > Len(input) THEN [v |-> Str(<<>>), cache |-> cache]
  ELSE LET isMatch == /\ input[i] = "$" /\ HasAt(input, i + 1, "{")
                      /\ NameRunEnd(input, i + 2) > i + 2
                      /\ HasAt(input, NameRunEnd(input, i + 2), "}")
       IN  IF isMatch
           THEN LET e == NameRunEnd(input, i + 2)
                    got == getStringFromEnv(cache, env, SubSeq(input, i + 2, e - 1))
                    rest == ReplaceInline(input, e + 1, got.cache, env)
                IN  IF IsError(got.v) THEN got
                    ELSE IF IsError(rest.v) THEN rest
                    ELSE [v |-> Str(got.v.s \o rest.v.s), cache |-> rest.cache]
           ELSE LET rest == ReplaceInline(input, i + 1, cache, env)
                IN  IF IsError(rest.v) THEN rest
                    ELSE [v |-> Str(<<input[i]>> \o rest.v.s), cache |-> rest.cache]

\* expandEnvVar(input): the value returned or the error thrown, and the cache.
expandEnvVar(input, cache, env) ==
  LET Typed(match, type, got) ==
        IF ToLowerCase(type) \notin SwitchCases
        THEN [v |-> UnsupportedTypeError(type), cache |-> cache]
        ELSE IF IsError(got.v) THEN got
        ELSE [v |-> ConvertByType(type, got.v, match.subtype1, match.subtype2),
              cache |-> got.cache]
      Matched(match) ==
        IF match.matched
        THEN Typed(match, Default(match.type, NestableDataTypes.String),
                   getStringFromEnv(cache, env, match.varName))
        ELSE ReplaceInline(input, 1, cache, env)
  IN  Matched(IF HasAt(input, 1, "$") THEN MatchTyped(input) ELSE [matched |-> FALSE])

-----------------------------------------------------------------------------
(* Calls and their outcomes.  `last` is the most recent step: the operation, *)
(* its argument, the force option of a configure call, whether the call went *)
(* past its early return, and the value it returned or the error it threw    *)
(* (Undefined for a void return).                                            *)

Call(op, arg, force, ran, result) ==
  [op |-> op, arg |-> arg, force |-> force, ran |-> ran, result |-> result]

NoCall == Call("none", <<>>, "absent", FALSE, Undefined)

-----------------------------------------------------------------------------
(* Leaf strings given to expandEnvVar, and the variables they refer to.      *)

ToUpperChar(c) ==
  IF IsLower(c) THEN UpperChars[CHOOSE i \in 1..26 : LowerChars[i] = c] ELSE c

ToUpperCase(s) == [i \in 1..Len(s) |-> ToUpperChar(s[i])]

\* A token as the enum writes it, in lower case, and in upper case.
Spellings(token) == {token, ToLowerCase(token), ToUpperCase(token)}

UnsupportedTokens ==
  { <<"b","o","g","u","s">>, <<"i","n","t">>, <<"t","o","S","t","r","i","n","g">> }

TypeTokens ==
  UNION {Spellings(x) : x \in Values(NestableDataTypes) \cup Values(NonNestableDataTypes)}
    \cup UnsupportedTokens

SubtypeTokens == UNION {Spellings(x) : x \in Values(NestableDataTypes)} \cup UnsupportedTokens

VarA == <<"A">>
VarB == <<"B">>

TypedLeaf(name, type) == <<"$">> \o name \o <<":", ":">> \o type
WithSubtype(leaf, subtype) == leaf \o <<":">> \o subtype
InlineRef(name) == <<"$", "{">> \o name \o <<"}">>

TypedLeaves ==
  {<<"$">> \o VarA}
    \cup {TypedLeaf(VarA, t) : t \in TypeTokens}
    \cup {WithSubtype(TypedLeaf(VarA, c), s) : c \in Spellings(NonNestableDataTypes.Array), s \in SubtypeTokens}
    \cup {WithSubtype(TypedLeaf(VarA, ToLowerCase(c)), s) :
            c \in {NonNestableDataTypes.Set, NonNestableDataTypes.Map}, s \in SubtypeTokens}
    \cup {WithSubtype(WithSubtype(TypedLeaf(VarA, ToLowerCase(NonNestableDataTypes.Map)), NestableDataTypes.String), s) :
            s \in SubtypeTokens}
    \cup {WithSubtype(TypedLeaf(VarA, <<"b","o","g","u","s">>), NestableDataTypes.Number)}

InlineLeaves ==
  { <<"x">>,
    <<"x">> \o InlineRef(VarA) \o <<"y">>,
    InlineRef(VarA),
    InlineRef(VarA) \o InlineRef(VarB),
    <<"x", " ">> \o InlineRef(VarB),
    TypedLeaf(VarA, NestableDataTypes.Number) \o InlineRef(VarB),
    <<"$", "{">> \o VarA,
    <<"$", "{", "}">>,
    <<"a", "$">> \o VarA }

\* Leaves in which a backslash precedes the '$'.
EscapedLeaves ==
  { <<"\\">> \o TypedLeaf(VarA, NestableDataTypes.Number),
    <<"\\">> \o InlineRef(VarA),
    <<"x", "\\">> \o InlineRef(VarA) \o <<"y">> }

\* Leaves that start with '$' and are no $NAME(::TYPE(:SUBTYPE1(:SUBTYPE2)?)?)?:
\* a subtype without ::TYPE, one and two of them, a fourth token, a NAME in
\* lower case, and an empty TYPE.
MalformedLeaves ==
  { WithSubtype(<<"$">> \o VarA, NestableDataTypes.Number),
    WithSubtype(WithSubtype(<<"$">> \o VarA, NestableDataTypes.Number), NestableDataTypes.String),
    WithSubtype(WithSubtype(WithSubtype(TypedLeaf(VarA, NestableDataTypes.Number), <<"a">>), <<"b">>), <<"c">>),
    TypedLeaf(<<"a">>, NestableDataTypes.Number),
    TypedLeaf(VarA, <<>>) }

ExpandInputs == TypedLeaves \cup InlineLeaves \cup EscapedLeaves \cup MalformedLeaves

\* Raw values of A: a number, arrays (one empty), an object, a text that is
\* not JSON, an infinity, a date, a text that is neither, the empty string,
\* and the JSON null.
RawValues ==
  { <<"5">>, <<"[","\"","5","\"","]">>, <<"[","]">>,
    <<"{","\"","a","\"",":","\"","5","\"","}">>, <<"[">>,
    <<"I","n","f","i","n","i","t","y">>,
    <<"1","9","7","0","-","0","1","-","0","1">>,
    <<"a","b","c">>, <<>>, <<"n","u","l","l">> }

OneVar(name, value) == [k \in {name} |-> value]

ExpandEnvs == {EmptyFcn} \cup {setEnvValueEnv(OneVar(VarB, <<"x">>), VarA, v) : v \in RawValues}

-----------------------------------------------------------------------------
(* The static fields of Config and EnvParser when the classes are loaded.    *)

\* What the last configuration pass selected (Undefined where it selected
\* nothing), the error it threw, the revision of the files it read, whether it
\* was forced, the top-level keys the tree held when it started, and the
\* variables its .env load added to process.env.
Selected(envFile, configFile, defaultFile, thrown, rev, forced, prevKeys, added) ==
  [envFile |-> envFile, configFile |-> configFile, defaultFile |-> defaultFile,
   thrown |-> thrown, rev |-> rev, forced |-> forced, prevKeys |-> prevKeys,
   added |-> added]

StaticInit ==
  /\ environment = Environments.DEVELOPMENT
  /\ environments = Values(Environments)
  /\ envDir = <<>>
  /\ configDir = <<>>
  /\ envPaths = EmptyFcn
  /\ configPaths = EmptyFcn
  /\ defaultConfigPaths = <<>>
  /\ configMap = EmptyFcn
  /\ alreadyConfigured = FALSE
  /\ prevDotenvValues = Undefined
  /\ envCache = EmptyFcn
  /\ pass = Selected(Undefined, Undefined, Undefined, Undefined, 0, FALSE, {}, {})
  /\ last = NoCall
  /\ changes = 0

\* Changes made to the process from outside are counted up to this many.
MaxChanges == 1

-----------------------------------------------------------------------------
(* EnvParser operations and expandEnvVar on their own.                       *)

InitExpand ==
  /\ argv = <<>>
  /\ procEnv \in ExpandEnvs
  /\ fsRev = 1
  /\ StaticInit

\* expandEnvVar(input)
ExpandLeaf(input) ==
  \E r \in {expandEnvVar(input, envCache, procEnv)} :
    /\ envCache' = r.cache
    /\ last' = Call("expandEnvVar", input, "absent", TRUE, r.v)
    /\ UNCHANGED <<argv, procEnv, fsRev, configVars, changes>>

\* EnvParser.refreshCache()
RefreshCache ==
  /\ envCache' = refreshEnvCache(procEnv)
  /\ last' = Call("refreshCache", <<>>, "absent", TRUE, Undefined)
  /\ UNCHANGED <<argv, procEnv, fsRev, configVars, changes>>

\* process.env[key] = value, by code outside the library
SetProcessEnv(key, value) ==
  /\ changes < MaxChanges
  /\ changes' = changes + 1
  /\ procEnv' = setEnvValueEnv(procEnv, key, value)
  /\ last' = Call("process.env", key, "absent", TRUE, Undefined)
  /\ UNCHANGED <<argv, fsRev, configVars, envCache>>

\* delete process.env[key], by code outside the library
DeleteProcessEnv(key) ==
  /\ changes < MaxChanges
  /\ changes' = changes + 1
  /\ key \in DOMAIN procEnv
  /\ procEnv' = deleteEnvValueEnv(procEnv, key)
  /\ last' = Call("process.env", key, "absent", TRUE, Undefined)
  /\ UNCHANGED <<argv, fsRev, configVars, envCache>>

NextExpand ==
  \/ \E input \in ExpandInputs : ExpandLeaf(input)
  \/ RefreshCache

SpecExpand == InitExpand /\ [][NextExpand]_vars

-----------------------------------------------------------------------------
(* Claims about typed substitution and inline interpolation (SpecExpand).    *)

Expanded == last.op = "expandEnvVar"

Raised(name) == IsError(last.result) /\ last.result.name = name

RecognizedTypeTokens == UNION {Spellings(x) : x \in Values(NestableDataTypes) \cup Values(NonNestableDataTypes)}
RecognizedSubtypeTokens == UNION {Spellings(x) : x \in Values(NestableDataTypes)}

\* Typed substitutions all of whose tokens are recognized tokens, in some letter case.
RecognizedLeaves ==
  {TypedLeaf(VarA, t) : t \in RecognizedTypeTokens}
    \cup {WithSubtype(TypedLeaf(VarA, c), s) :
            c \in UNION {Spellings(x) : x \in Values(NonNestableDataTypes)},
            s \in RecognizedSubtypeTokens}
    \cup {WithSubtype(WithSubtype(TypedLeaf(VarA, ToLowerCase(NonNestableDataTypes.Map)), NestableDataTypes.String), s) :
            s \in RecognizedSubtypeTokens}

\* Typed substitutions with an unsupported TYPE, or with an unsupported SUBTYPE
\* of an array, set or map.
UnsupportedLeaves ==
  {TypedLeaf(VarA, t) : t \in UnsupportedTokens}
    \cup {WithSubtype(TypedLeaf(VarA, c), s) :
            c \in UNION {Spellings(x) : x \in Values(NonNestableDataTypes)},
            s \in UnsupportedTokens}
    \cup {WithSubtype(WithSubtype(TypedLeaf(VarA, ToLowerCase(NonNestableDataTypes.Map)), NestableDataTypes.String), s) :
            s \in UnsupportedTokens}

\* C8: a typed substitution whose TYPE is one of the nine tokens and whose
\* SUBTYPEs are nestable tokens, each in any letter case, never raises
\* UnsupportedTypeError.
C8_TokensInAnyCase ==
  (Expanded /\ last.arg \in RecognizedLeaves) => ~Raised("UnsupportedTypeError")

\* C9: with the variable defined, a typed substitution with an unsupported TYPE
\* or an unsupported SUBTYPE of an array, set or map raises UnsupportedTypeError,
\* whatever the raw value is.
C9_UnsupportedAlwaysRaises ==
  (Expanded /\ last.arg \in UnsupportedLeaves /\ VarA \in DOMAIN procEnv)
    => Raised("UnsupportedTypeError")

\* A leaf that is no typed substitution under any reading of the grammar: it
\* does not start with '$', or holds a character no NAME or token can hold.
InlineShaped(leaf) ==
  \/ ~HasAt(leaf, 1, "$")
  \/ \E i \in 2..Len(leaf) : ~IsWordChar(leaf[i]) /\ leaf[i] # ":"

\* leaf[i..j] is an occurrence of ${NAME}.
RefAt(leaf, i, j) ==
  /\ i + 2 < j /\ j <= Len(leaf)
  /\ leaf[i] = "$" /\ leaf[i + 1] = "{" /\ leaf[j] = "}"
  /\ \A k \in (i + 2)..(j - 1) : IsNameChar(leaf[k])

Positions(leaf) == 1..Len(leaf)

-----------------------------------------------------------------------------
(* The files on disk.  The working directory is the project root; a path     *)
(* maps to what is found there: a directory, or a file with the JSON value   *)
(* of its trimmed text (empty when the text is blank) and, for a .env file,  *)
(* the variables dotenv parses from it.                                      *)

Dir == [kind |-> "dir", empty |-> FALSE, json |-> Undefined, dotenv |-> EmptyFcn]
EmptyFile == [kind |-> "file", empty |-> TRUE, json |-> Undefined, dotenv |-> EmptyFcn]
JSONFile(doc) == [kind |-> "file", empty |-> FALSE, json |-> doc, dotenv |-> EmptyFcn]
DotenvFile(values) == [kind |-> "file", empty |-> FALSE, json |-> Undefined, dotenv |-> values]

Entry(key, value) == <<key, value>>

\* The documents of the files, as JSON.parse gives them.
Doc ==
  [ Default |->
      Obj(<< Entry(<<"x">>, Str(<<"d","e","f">>)),
            Entry(<<"y">>, Str(<<"d","e","f">>)),
            Entry(<<"k">>, Obj(<< Entry(<<"i">>, Str(<<"d","e","f">>)), Entry(<<"j">>, Str(<<"d","e","f">>)) >>)),
            Entry(<<"a",".","b">>, Str(<<"d","o","t">>)),
            Entry(<<"a","\\",".","b">>, Str(<<"e","s","c">>)),
            Entry(<<"a">>, Obj(<< Entry(<<"b">>, Str(<<"i","n">>)) >>)) >>),
    Development |->
      Obj(<< Entry(<<"x">>, Str(<<"d","e","v">>)),
            Entry(<<"k">>, Obj(<< Entry(<<"i">>, Str(<<"d","e","v">>)) >>)),
            Entry(<<"e">>, Str(<<"b","$","{","B","}">>)) >>),
    Development2 |->
      Obj(<< Entry(<<"x">>, Str(<<"d","e","v","2">>)) >>),
    Production |->
      Obj(<< Entry(<<"x">>, Str(<<"p","r","o","d">>)),
            Entry(<<"p">>, Str(<<"$","A",":",":","n","u","m","b","e","r">>)),
            Entry(<<"s">>, Arr(<< Str(<<"a","$","{","A","}">>), Num(1) >>)) >>),
    Beta |->
      Obj(<< Entry(<<"x">>, Str(<<"b","e","t","a">>)) >>),
    Other |->
      Obj(<< Entry(<<"x">>, Str(<<"o","t","h">>)), Entry(<<"o">>, Str(<<"o","t","h">>)) >>),
    DirDefault |->
      Obj(<< Entry(<<"x">>, Str(<<"d","d","e","f">>)), Entry(<<"z">>, Str(<<"d","d","e","f">>)),
            Entry(<<"w">>, Str(<<"$","{","B","}">>)) >>),
    Outside |->
      Obj(<< Entry(<<"x">>, Str(<<"o","u","t">>)) >>),
    Unresolved |->
      Obj(<< Entry(<<"u">>, Arr(<< Str(<<"$","U",":",":","b","o","g","u","s">>) >>)) >>) ]

\* The paths of the files, and one of no file.
Path ==
  [ Default |-> <<"/","c","o","n","f","i","g","/","d","e","f","a","u","l","t",".","j","s","o","n">>,
    Development |-> <<"/","c","o","n","f","i","g","/","d","e","v","e","l","o","p","m","e","n","t",".","j","s","o","n">>,
    Production |-> <<"/","c","o","n","f","i","g","/","p","r","o","d","u","c","t","i","o","n",".","j","s","o","n">>,
    Beta |-> <<"/","c","o","n","f","i","g","/","b","e","t","a",".","j","s","o","n">>,
    Other |-> <<"o",".","j","s","o","n">>,
    Text |-> <<"t",".","t","x","t">>,
    Empty |-> <<"e",".","j","s","o","n">>,
    Directory |-> <<"c",".","j","s","o","n">>,
    Missing |-> <<"m",".","j","s","o","n">>,
    DirDefault |-> <<"d","/","c","o","n","f","i","g","/","d","e","f","a","u","l","t",".","j","s","o","n">>,
    DirProduction |-> <<"d","/","c","o","n","f","i","g","/","p","r","o","d","u","c","t","i","o","n",".","j","s","o","n">>,
    Outside |-> <<".",".","/","x",".","j","s","o","n">>,
    Unresolved |-> <<"u",".","j","s","o","n">>,
    EnvDevelopment |-> <<"/",".","e","n","v",".","d","e","v","e","l","o","p","m","e","n","t">>,
    EnvProduction |-> <<"/",".","e","n","v",".","p","r","o","d","u","c","t","i","o","n">>,
    EnvOutside |-> <<".",".","/","x",".","e","n","v">> ]

Files ==
  << <<Path.Default, JSONFile(Doc.Default)>>,
     <<Path.Development, JSONFile(Doc.Development)>>,
     <<Path.Production, JSONFile(Doc.Production)>>,
     <<Path.Beta, JSONFile(Doc.Beta)>>,
     <<Path.Other, JSONFile(Doc.Other)>>,
     <<Path.Text, JSONFile(Doc.Other)>>,
     <<Path.Empty, EmptyFile>>,
     <<Path.Directory, Dir>>,
     <<Path.DirDefault, JSONFile(Doc.DirDefault)>>,
     <<Path.DirProduction, JSONFile(Doc.Other)>>,
     <<Path.Outside, JSONFile(Doc.Outside)>>,
     <<Path.Unresolved, JSONFile(Doc.Unresolved)>>,
     <<Path.EnvDevelopment, DotenvFile(OneVar(VarB, <<"1">>))>>,
     <<Path.EnvProduction, DotenvFile(OneVar(VarA, <<"5">>))>>,
     <<Path.EnvOutside, DotenvFile(OneVar(VarA, <<"8">>))>> >>

\* The files of revision rev: in revision 2 the development document was rewritten.
FileSystem(rev) ==
  [path \in {Files[i][1] : i \in DOMAIN Files} |->
     IF rev = 2 /\ path = Path.Development THEN JSONFile(Doc.Development2)
     ELSE Files[CHOOSE i \in DOMAIN Files : Files[i][1] = path][2]]

\* A relative path that climbs out of the working directory lies outside the root.
OutsideRoot(path) == Len(path) >= 3 /\ SubSeq(path, 1, 3) = <<".",".","/">>

\* fs.existsSync, fs.statSync(...).isDirectory, fs.readFileSync(...).trim() === ''
existsSync(fs, path) == path \in DOMAIN fs
isDirectory(fs, path) == fs[path].kind = "dir"
isBlank(fs, path) == fs[path].empty

LastIndexOf(s, c) ==
  IF \E i \in 1..Len(s) : s[i] = c
  THEN CHOOSE i \in 1..Len(s) : s[i] = c /\ \A j \in (i + 1)..Len(s) : s[j] # c
  ELSE 0

\* path.extname
extname(path) ==
  LET base == SubSeq(path, LastIndexOf(path, "/") + 1, Len(path))
      dot == LastIndexOf(base, ".")
  IN  IF dot <= 1 THEN <<>> ELSE SubSeq(base, dot, Len(base))

StartsWith(s, prefix) == Len(s) >= Len(prefix) /\ SubSeq(s, 1, Len(prefix)) = prefix

isValidEnvFile(fs, path) == existsSync(fs, path)

\* The validity check without the test of the file type.
isValidConfigFileAnyType(fs, filePath) ==
  /\ existsSync(fs, filePath)
  /\ ~isDirectory(fs, filePath)
  /\ ~isBlank(fs, filePath)

isValidConfigFile(fs, filePath) ==
  /\ existsSync(fs, filePath)
  /\ ~isDirectory(fs, filePath)
  /\ extname(filePath) \in Values(FileTypes)
  /\ ~isBlank(fs, filePath)

-----------------------------------------------------------------------------
(* Config: the steps of a configuration pass.                                *)

\* The index of the first TRUE of a sequence of Booleans, 0 when there is none.
FirstIndex(flags) ==
  IF \E i \in DOMAIN flags : flags[i]
  THEN CHOOSE i \in DOMAIN flags : flags[i] /\ \A j \in 1..(i - 1) : ~flags[j]
  ELSE 0

\* arg.split('=')[1]
ArgValue(arg) == Split(arg, "=")[2]

\* The value of the first argument that starts with flag, Undefined without one.
FirstArgValue(args, flag) ==
  LET i == FirstIndex([k \in DOMAIN args |-> StartsWith(args[k], flag)])
  IN  IF i = 0 THEN Undefined ELSE Str(ArgValue(args[i]))

LowerCasedNames(list) == {ToLowerCase(name) : name \in Range(Split(list, ","))}

setEnvironmentNames(args, env, current) ==
  LET arg == FirstArgValue(args, COMMAND_LINE_ARGS.ENV_NAMES)
  IN  IF arg # Undefined THEN LowerCasedNames(arg.s)
      ELSE IF ENV_ARGS.ENV_NAMES \in DOMAIN env THEN LowerCasedNames(env[ENV_ARGS.ENV_NAMES])
      ELSE current

determineEnvironment(args, env, current) ==
  LET arg == FirstArgValue(args, COMMAND_LINE_ARGS.ENV)
  IN  IF arg # Undefined THEN ToLowerCase(arg.s)
      ELSE IF ENV_ARGS.ENV \in DOMAIN env THEN ToLowerCase(env[ENV_ARGS.ENV])
      ELSE current

setEnvDir(args, env) ==
  LET arg == FirstArgValue(args, COMMAND_LINE_ARGS.ENV_DIR)
  IN  IF arg # Undefined THEN trimStringFromEnd(arg.s, "/")
      ELSE IF ENV_ARGS.ENV_DIR \in DOMAIN env THEN trimStringFromEnd(env[ENV_ARGS.ENV_DIR], "/")
      ELSE <<>>

setConfigDir(args, env) ==
  LET arg == FirstArgValue(args, COMMAND_LINE_ARGS.CONFIG_DIR)
  IN  IF arg # Undefined THEN trimStringFromEnd(arg.s, "/")
      ELSE IF ENV_ARGS.CONFIG_DIR \in DOMAIN env THEN trimStringFromEnd(env[ENV_ARGS.CONFIG_DIR], "/")
      ELSE <<>>

\* setPaths: the three collections of candidate paths.
setEnvPaths(names, dir) == [name \in names |-> dir \o <<"/",".","e","n","v",".">> \o name]
setConfigPaths(names, dir) ==
  [name \in names |-> << dir \o <<"/","c","o","n","f","i","g","/">> \o name \o FileTypes.JSON >>]
setDefaultConfigPaths(current, dir) ==
  LET path == dir \o <<"/","c","o","n","f","i","g","/","d","e","f","a","u","l","t">> \o FileTypes.JSON
  IN  IF path \in Range(current) THEN current ELSE Append(current, path)

\* resetDotEnv: every key of the previous dotenv.parse is deleted from process.env.
resetDotEnv(env, prev) ==
  IF prev = Undefined THEN env
  ELSE [k \in DOMAIN env \ DOMAIN prev.values |-> env[k]]

\* The trimmed paths given with flag, in the order of the arguments.
PathArgs(args, flag) ==
  LET IsFlag(i) == StartsWith(args[i], flag)
      RECURSIVE Collect(_)
      Collect(i) ==
        IF i > Len(args) THEN <<>>
        ELSE IF IsFlag(i) THEN <<trimStringFromEnd(ArgValue(args[i]), "/")>> \o Collect(i + 1)
        ELSE Collect(i + 1)
  IN  Collect(1)

\* The candidates in the order tried: arguments, the variable, the paths of the
\* environment when it has any.
Candidates(args, env, flag, var, ofEnvironment) ==
  PathArgs(args, flag)
    \o (IF var \in DOMAIN env THEN <<trimStringFromEnd(env[var], "/")>> ELSE <<>>)
    \o [i \in DOMAIN ofEnvironment |-> trimStringFromEnd(ofEnvironment[i], "/")]

\* The first candidate whose check passed, Undefined when none did.
FirstValid(candidates, valid) ==
  LET i == FirstIndex(valid)
  IN  IF i = 0 THEN Undefined ELSE Str(candidates[i])

\* findEnvFile, after resetDotEnv
findEnvFile(fs, args, env, paths, name) ==
  LET Of(candidates) ==
        FirstValid(candidates,
                   [i \in DOMAIN candidates |-> isValidEnvFile(fs, candidates[i])])
  IN  Of(Candidates(args, env, COMMAND_LINE_ARGS.ENV_PATH, ENV_ARGS.ENV_PATH,
                    IF name \in DOMAIN paths THEN <<paths[name]>> ELSE <<>>))

\* findConfigFile, after configMap.clear()
findConfigFile(fs, args, env, paths, name) ==
  LET Of(candidates) ==
        FirstValid(candidates,
                   [i \in DOMAIN candidates |-> isValidConfigFile(fs, candidates[i])])
  IN  Of(Candidates(args, env, COMMAND_LINE_ARGS.CONFIG_PATH, ENV_ARGS.CONFIG_PATH,
                    IF name \in DOMAIN paths THEN paths[name] ELSE <<>>))

\* The first valid default path, as loadDefaultConfigFile picks it.
findDefaultConfigFile(fs, paths) ==
  FirstValid(paths, [i \in DOMAIN paths |-> isValidConfigFile(fs, paths[i])])

\* dotenv.config({path}): variables already in process.env keep their values.
dotenvConfig(env, parsed) ==
  [k \in DOMAIN env \cup DOMAIN parsed |-> IF k \in DOMAIN env THEN env[k] ELSE parsed[k]]

\* dotenv.parse(fs.readFileSync(path)); readFileSync of a directory throws.
dotenvParse(fs, path) ==
  IF isDirectory(fs, path) THEN Error("EISDIR", path)
  ELSE [t |-> "dotenv", values |-> fs[path].dotenv]

\* A load that sets nothing in process.env.
loadNothing(fs, env, path) ==
  IF path = Undefined THEN [env |-> env, parsed |-> Undefined]
  ELSE [env |-> env, parsed |-> dotenvParse(fs, path.s)]

\* loadEnvFile(path): process.env after dotenv.config, which swallows its own
\* read error, and the result of dotenv.parse.
loadEnvFile(fs, env, path) ==
  IF path = Undefined THEN [env |-> env, parsed |-> Undefined]
  ELSE LET Loaded(parsed) ==
             [env |-> IF IsError(parsed) THEN env ELSE dotenvConfig(env, parsed.values),
              parsed |-> parsed]
       IN  Loaded(dotenvParse(fs, path.s))

\* A pass that starts from the tree of the pass before.
keepConfigMap(map) == map

\* configMap.clear()
clearConfigMap(map) == EmptyFcn

\* convertJSONToMap over the elements of an array or the values of an object,
\* in order: the converted values, the first error thrown, and the cache.
RECURSIVE convertJSONToMap(_, _, _)
RECURSIVE ConvertEach(_, _, _)
ConvertEach(values, cache, env) ==
  IF values = <<>> THEN [vs |-> <<>>, error |-> Undefined, cache |-> cache]
  ELSE LET Prepend(head, rest) ==
             [vs |-> <<head.v>> \o rest.vs, error |-> rest.error, cache |-> rest.cache]
           First(head) ==
             IF IsError(head.v) THEN [vs |-> <<>>, error |-> head.v, cache |-> head.cache]
             ELSE Prepend(head, ConvertEach(Tail(values), head.cache, env))
       IN  First(convertJSONToMap(values[1], cache, env))

convertJSONToMap(jsonObj, cache, env) ==
  LET OfArray(r) ==
        [v |-> IF IsError(r.error) THEN r.error ELSE Arr(r.vs), cache |-> r.cache]
      OfObject(r) ==
        [v |-> IF IsError(r.error) THEN r.error
               ELSE MapOf(MapFromEntries([i \in DOMAIN jsonObj.e |->
                                            <<Str(jsonObj.e[i][1]), r.vs[i]>>])),
         cache |-> r.cache]
  IN  CASE jsonObj.t = "arr" -> OfArray(ConvertEach(jsonObj.a, cache, env))
        [] jsonObj.t = "str" -> expandEnvVar(jsonObj.s, cache, env)
        [] jsonObj.t = "obj" ->
             OfObject(ConvertEach([i \in DOMAIN jsonObj.e |-> jsonObj.e[i][2]], cache, env))
        [] OTHER -> [v |-> jsonObj, cache |-> cache]

\* A merge in which the document loaded later wins.
mergeOverConfigMap(map, loaded) ==
  [k \in DOMAIN map \cup DOMAIN loaded |-> IF k \in DOMAIN loaded THEN loaded[k] ELSE map[k]]

\* The loop of parseConfigIntoMap: a key is set only if the map has not got it.
mergeIntoConfigMap(map, loaded) ==
  [k \in DOMAIN map \cup DOMAIN loaded |-> IF k \in DOMAIN map THEN map[k] ELSE loaded[k]]

\* parseConfigIntoMap(filePath): the map, the error thrown, and the cache.
parseConfigIntoMap(map, fs, filePath, cache, env) ==
  LET Merged(r) ==
        IF IsError(r.v) THEN [map |-> map, error |-> r.v, cache |-> r.cache]
        ELSE [map |-> mergeIntoConfigMap(map, r.v.m), error |-> Undefined, cache |-> r.cache]
  IN  Merged(convertJSONToMap(fs[filePath].json, cache, env))

\* loadConfigFile(path) and the body of loadDefaultConfigFile
loadConfigFile(map, fs, path, cache, env) ==
  IF path = Undefined THEN [map |-> map, error |-> Undefined, cache |-> cache]
  ELSE parseConfigIntoMap(map, fs, path.s, cache, env)

\* A walk that returns the node it has reached when the next part is missing.
RECURSIVE WalkAsFarAsItGoes(_, _, _)
WalkAsFarAsItGoes(currentConfig, parts, key) ==
  IF parts = <<>> THEN currentConfig
  ELSE IF currentConfig.t = "map" /\ Str(parts[1]) \in DOMAIN currentConfig.m
  THEN WalkAsFarAsItGoes(currentConfig.m[Str(parts[1])], Tail(parts), key)
  ELSE IF currentConfig.t = "map" THEN UndefinedConfigValueError(key)
  ELSE currentConfig

\* Config.get(key)
RECURSIVE Walk(_, _, _)
Walk(currentConfig, parts, key) ==
  IF parts = <<>> THEN currentConfig
  ELSE IF currentConfig.t = "map" /\ Str(parts[1]) \in DOMAIN currentConfig.m
  THEN Walk(currentConfig.m[Str(parts[1])], Tail(parts), key)
  ELSE UndefinedConfigValueError(key)

get(map, key) == Walk(MapOf(map), Split(key, "."), key)

\* An early return taken only when force is given as false.
SkipsOnlyOnFalse(configured, force) == configured = TRUE /\ force = "false"

\* The early return of configure.
Skips(configured, force) == configured = TRUE /\ force # "true"

\* The state a configuration pass leaves, thrown error included.  Each step
\* is bound to the one value it computes, in the order configure calls them.
ConfigurePass(force) ==
  \E fs \in {FileSystem(fsRev)} :
  \E names \in {setEnvironmentNames(argv, procEnv, environments)} :
  \E name \in {determineEnvironment(argv, procEnv, environment)} :
  \E eDir \in {setEnvDir(argv, procEnv)} :
  \E cDir \in {setConfigDir(argv, procEnv)} :
  \E ePaths \in {setEnvPaths(names, eDir)} :
  \E cPaths \in {setConfigPaths(names, cDir)} :
  \E dPaths \in {setDefaultConfigPaths(defaultConfigPaths, cDir)} :
  \E env1 \in {resetDotEnv(procEnv, prevDotenvValues)} :
  \E envFile \in {findEnvFile(fs, argv, env1, ePaths, name)} :
  \E loaded \in {loadEnvFile(fs, env1, envFile)} :
  \E env2 \in {loaded.env} :
  \E cache \in {IF IsError(loaded.parsed) THEN envCache ELSE refreshEnvCache(env2)} :
  \E configFile \in {IF IsError(loaded.parsed) THEN Undefined
                    ELSE findConfigFile(fs, argv, env2, cPaths, name)} :
  \E first \in {IF IsError(loaded.parsed)
               THEN [map |-> configMap, error |-> loaded.parsed, cache |-> cache]
               ELSE loadConfigFile(clearConfigMap(configMap), fs, configFile, cache, env2)} :
  \E defaultFile \in {IF IsError(first.error) THEN Undefined
                     ELSE findDefaultConfigFile(fs, dPaths)} :
  \E second \in {IF IsError(first.error) THEN first
                ELSE loadConfigFile(first.map, fs, defaultFile, first.cache, env2)} :
      /\ environments' = names
      /\ environment' = name
      /\ envDir' = eDir
      /\ configDir' = cDir
      /\ envPaths' = ePaths
      /\ configPaths' = cPaths
      /\ defaultConfigPaths' = dPaths
      /\ procEnv' = env2
      /\ prevDotenvValues' = IF envFile = Undefined \/ IsError(loaded.parsed)
                             THEN prevDotenvValues
                             ELSE loaded.parsed
      /\ envCache' = second.cache
      /\ configMap' = second.map
      /\ alreadyConfigured' = IF IsError(second.error) THEN alreadyConfigured ELSE TRUE
      /\ pass' = Selected(envFile, configFile, defaultFile, second.error, fsRev,
                          force = "true", DOMAIN configMap,
                          IF envFile = Undefined \/ IsError(loaded.parsed) THEN {}
                          ELSE DOMAIN loaded.parsed.values \ DOMAIN env1)
      /\ last' = Call("configure", <<>>, force, TRUE, second.error)

\* Config.configure(configOptions): force is "true", "false" or "absent".  The
\* first call is the one the module makes when it is imported.
Configure(force) ==
  /\ alreadyConfigured \/ (last.op = "none" /\ force = "absent")
  /\ IF Skips(alreadyConfigured, force)
     THEN /\ last' = Call("configure", <<>>, force, FALSE, Undefined)
          /\ UNCHANGED <<procEnv, configVars, envCache>>
     ELSE ConfigurePass(force)
  /\ UNCHANGED <<argv, fsRev, changes>>

\* Config.get(key)
Get(key) ==
  /\ alreadyConfigured
  /\ last' = Call("get", key, "absent", TRUE, get(configMap, key))
  /\ UNCHANGED <<argv, procEnv, fsRev, configVars, envCache, changes>>

-----------------------------------------------------------------------------
(* The process around the library: arguments, variables and files, and the   *)
(* changes made to them between calls.                                       *)

Arg(flag, value) == flag \o value

ArgvChoices ==
  { <<>>,
    << Arg(COMMAND_LINE_ARGS.ENV, <<"P","R","O","D","U","C","T","I","O","N">>) >>,
    << Arg(COMMAND_LINE_ARGS.ENV, <<"b","e","t","a">>) >>,
    << Arg(COMMAND_LINE_ARGS.ENV_NAMES, <<"B","e","t","a",",","P","r","o","d">>), Arg(COMMAND_LINE_ARGS.ENV, <<"B","e","t","a">>) >>,
    << Arg(COMMAND_LINE_ARGS.CONFIG_PATH, Path.Missing), Arg(COMMAND_LINE_ARGS.CONFIG_PATH, Path.Other) >>,
    << Arg(COMMAND_LINE_ARGS.CONFIG_PATH, Path.Text), Arg(COMMAND_LINE_ARGS.CONFIG_PATH, Path.Directory),
       Arg(COMMAND_LINE_ARGS.CONFIG_PATH, Path.Empty) >>,
    << Arg(COMMAND_LINE_ARGS.CONFIG_PATH, Path.Outside), Arg(COMMAND_LINE_ARGS.ENV_PATH, Path.EnvOutside) >>,
    << Arg(COMMAND_LINE_ARGS.CONFIG_DIR, <<"d","/">>) >>,
    << Arg(COMMAND_LINE_ARGS.CONFIG_PATH, Path.Unresolved) >>,
    << Arg(COMMAND_LINE_ARGS.ENV_PATH, Path.Missing), Arg(COMMAND_LINE_ARGS.ENV_PATH, Path.Directory) >> }

EnvChoices ==
  { EmptyFcn,
    OneVar(ENV_ARGS.ENV, <<"T","e","s","t","i","n","g">>),
    OneVar(ENV_ARGS.CONFIG_PATH, <<"o",".","j","s","o","n","/">>),
    OneVar(ENV_ARGS.CONFIG_PATH, Path.Production),
    OneVar(VarA, <<"7">>) }

EnvAssignments ==
  { <<ENV_ARGS.ENV, <<"P","r","o","d","u","c","t","i","o","n">>>>,
    <<ENV_ARGS.CONFIG_DIR, <<"d">>>>,
    <<ENV_ARGS.CONFIG_PATH, <<"o",".","j","s","o","n","/">>>> }

EnvDeletions == {ENV_ARGS.ENV, ENV_ARGS.CONFIG_PATH}

GetKeys ==
  { <<"x">>, <<"y">>, <<"e">>, <<"o">>, <<"z">>, <<"w">>, <<"p">>, <<"s">>, <<"k">>, <<"k",".","i">>, <<"k",".","j">>, <<"x",".","i">>, <<"q">>,
    <<"a",".","b">>, <<"a","\\",".","b">>, <<"s",".","0">>, <<>> }

\* process.argv is replaced
SetArgv(args) ==
  /\ alreadyConfigured
  /\ changes < MaxChanges
  /\ args # argv
  /\ changes' = changes + 1
  /\ argv' = args
  /\ last' = Call("process.argv", <<>>, "absent", TRUE, Undefined)
  /\ UNCHANGED <<procEnv, fsRev, configVars, envCache>>

\* a file is rewritten
ChangeFiles ==
  /\ alreadyConfigured
  /\ changes < MaxChanges
  /\ fsRev = 1
  /\ changes' = changes + 1
  /\ fsRev' = 2
  /\ last' = Call("files", <<>>, "absent", TRUE, Undefined)
  /\ UNCHANGED <<argv, procEnv, configVars, envCache>>

Init ==
  /\ argv \in ArgvChoices
  /\ procEnv \in EnvChoices
  /\ fsRev = 1
  /\ StaticInit

Next ==
  \/ \E force \in {"absent", "false", "true"} : Configure(force)
  \/ \E key \in GetKeys : Get(key)
  \/ \E args \in ArgvChoices : SetArgv(args)
  \/ \E a \in EnvAssignments : alreadyConfigured /\ SetProcessEnv(a[1], a[2])
  \/ \E key \in EnvDeletions : alreadyConfigured /\ DeleteProcessEnv(key)
  \/ ChangeFiles

Spec == Init /\ [][Next]_vars

-----------------------------------------------------------------------------
(* Claims about the configuration pass and the merged tree (Spec).           *)

\* The last pass went through to the end.
CompletedPass == alreadyConfigured /\ pass.thrown = Undefined

\* The document the last pass read at path.
DocAt(path) == FileSystem(pass.rev)[path.s].json

\* A document node expanded against the snapshot the store holds.
StoreExpansion(node) == convertJSONToMap(node, envCache, EmptyFcn).v

Keys(doc) == {doc.e[i][1] : i \in DOMAIN doc.e}
ValueOf(doc, key) == doc.e[CHOOSE i \in DOMAIN doc.e : doc.e[i][1] = key][2]

BothLoaded == CompletedPass /\ pass.configFile # Undefined /\ pass.defaultFile # Undefined

\* C1: after a pass that loaded an environment document E and the default
\* document D, every top-level key of E maps to E's expanded value, and a get of
\* that key returns it, whatever D holds under the key.
C1_FirstWriterWinsAtRoot ==
  BothLoaded =>
    \A k \in Keys(DocAt(pass.configFile)) :
      LET v == StoreExpansion(ValueOf(DocAt(pass.configFile), k))
      IN  /\ Str(k) \in DOMAIN configMap
          /\ configMap[Str(k)] = v
          /\ (last.op = "get" /\ last.arg = k) => last.result = v

\* C1 witness: x is in both documents and get("x") returned the value of the
\* development document.
C1_Witness ==
  /\ BothLoaded
  /\ pass.configFile = Str(Path.Development) /\ pass.defaultFile = Str(Path.Default)
  /\ <<"x">> \in Keys(Doc.Default)
  /\ last.op = "get" /\ last.arg = <<"x">> /\ last.result = Str(<<"d","e","v">>)

\* C2: when E and D both hold a Mapping under k, every nested key j of D's
\* Mapping that E's Mapping lacks is retrievable as "k.j" with D's value.
C2_DefaultFillsNestedGaps ==
  BothLoaded =>
    LET E == DocAt(pass.configFile)
        D == DocAt(pass.defaultFile)
    IN  \A k \in Keys(E) \cap Keys(D) :
          (ValueOf(E, k).t = "obj" /\ ValueOf(D, k).t = "obj") =>
            \A j \in Keys(ValueOf(D, k)) \ Keys(ValueOf(E, k)) :
              get(configMap, k \o <<".">> \o j) = StoreExpansion(ValueOf(ValueOf(D, k), j))

\* The tree the documents selected by the last pass give: the environment
\* document first, the default document for the keys it lacks.
SelectedTree ==
  LET e == IF pass.configFile = Undefined THEN EmptyFcn
           ELSE StoreExpansion(DocAt(pass.configFile)).m
      d == IF pass.defaultFile = Undefined THEN EmptyFcn
           ELSE StoreExpansion(DocAt(pass.defaultFile)).m
  IN  [k \in DOMAIN e \cup DOMAIN d |-> IF k \in DOMAIN e THEN e[k] ELSE d[k]]

\* C3: after a completed forced pass the tree holds exactly the keys and values
\* of the documents that pass selected, and a get whose first segment is in
\* neither document raises UndefinedConfigValueError.
C3_ForcedPassReplacesTree ==
  (CompletedPass /\ pass.forced) =>
    /\ configMap = SelectedTree
    /\ (last.op = "get" /\ Str(Split(last.arg, ".")[1]) \notin DOMAIN SelectedTree)
         => last.result = UndefinedConfigValueError(last.arg)

\* C3 witness: e was in the tree before the forced pass, is in neither document
\* the pass selected, and get("e") raised.
C3_Witness ==
  /\ CompletedPass /\ pass.forced
  /\ Str(<<"e">>) \in pass.prevKeys
  /\ last.op = "get" /\ last.arg = <<"e">>
  /\ last.result = UndefinedConfigValueError(<<"e">>)

\* C4: once a pass has completed, a configure call without force=true returns
\* at once: the tree, the environment, the candidate paths, the store's cache
\* and the process variables are what they were.
C4_ConfigureOnce ==
  [][(alreadyConfigured /\ last'.op = "configure" /\ last'.force # "true")
       => (~last'.ran /\ UNCHANGED <<configVars, envCache, procEnv>>)]_vars

\* C4 witness: configure returned early although the arguments now name
\* another environment than the one in force.
C4_Witness ==
  /\ last.op = "configure" /\ ~last.ran /\ last.force \in {"absent", "false"}
  /\ FirstArgValue(argv, COMMAND_LINE_ARGS.ENV) = Str(<<"P","R","O","D","U","C","T","I","O","N">>)
  /\ environment = Environments.DEVELOPMENT

\* The environment the precedence rule gives.
EnvironmentByPrecedence(args, env) ==
  IF \E i \in DOMAIN args : StartsWith(args[i], COMMAND_LINE_ARGS.ENV)
  THEN LET i == CHOOSE n \in DOMAIN args :
                  StartsWith(args[n], COMMAND_LINE_ARGS.ENV)
                  /\ \A m \in 1..(n - 1) : ~StartsWith(args[m], COMMAND_LINE_ARGS.ENV)
       IN  ToLowerCase(SubSeq(args[i], Len(COMMAND_LINE_ARGS.ENV) + 1, Len(args[i])))
  ELSE IF ENV_ARGS.ENV \in DOMAIN env THEN ToLowerCase(env[ENV_ARGS.ENV])
  ELSE Environments.DEVELOPMENT

\* C5: in every pass the environment is the lower-cased --env= argument, else
\* the lower-cased NODE_ENV, else "development".
C5_EnvironmentPrecedence ==
  [][(last'.op = "configure" /\ last'.ran)
       => environment' = EnvironmentByPrecedence(argv, procEnv)]_vars

\* The text after a flag, without the slashes at its end, for each argument
\* that starts with the flag, in order.
FlagPaths(args, flag) ==
  LET IsFlag(arg) == StartsWith(arg, flag)
      given == SelectSeq(args, IsFlag)
  IN  [i \in DOMAIN given |->
         trimStringFromEnd(SubSeq(given[i], Len(flag) + 1, Len(given[i])), "/")]

\* <configDir>/config/<environment>.json
EnvironmentDocument(dir, name) == dir \o <<"/","c","o","n","f","i","g","/">> \o name \o <<".","j","s","o","n">>

EndsWith(s, suffix) ==
  Len(s) >= Len(suffix) /\ SubSeq(s, Len(s) - Len(suffix) + 1, Len(s)) = suffix

\* Valid: exists, is not a directory, has extension .json, is not blank.
ValidDocument(fs, path) ==
  /\ path \in DOMAIN fs
  /\ fs[path].kind # "dir"
  /\ EndsWith(path, <<".","j","s","o","n">>)
  /\ ~fs[path].empty

\* The first valid candidate of a list, Undefined when none is valid.
FirstValidDocument(fs, candidates) ==
  IF \E i \in DOMAIN candidates : ValidDocument(fs, candidates[i])
  THEN Str(candidates[CHOOSE i \in DOMAIN candidates :
                        /\ ValidDocument(fs, candidates[i])
                        /\ \A j \in 1..(i - 1) : ~ValidDocument(fs, candidates[j])])
  ELSE Undefined

\* --config-path= arguments, then CONFIG_PATH, then the given last tier.
DocumentCandidates(args, env, lastTier) ==
  FlagPaths(args, COMMAND_LINE_ARGS.CONFIG_PATH)
    \o (IF ENV_ARGS.CONFIG_PATH \in DOMAIN env
        THEN <<trimStringFromEnd(env[ENV_ARGS.CONFIG_PATH], "/")>> ELSE <<>>)
    \o lastTier

\* The tree of the default document alone, as the pass that just ended read it.
DefaultAlone(defaultFile, rev, cache) ==
  IF defaultFile = Undefined THEN EmptyFcn
  ELSE convertJSONToMap(FileSystem(rev)[defaultFile.s].json, cache, EmptyFcn).v.m

\* A pass selects the first valid candidate of the list; when it finds none
\* and completes, the tree is that of the default document alone.
SelectsFirstValid(candidates) ==
  /\ pass'.configFile = FirstValidDocument(FileSystem(fsRev), candidates)
  /\ (pass'.configFile = Undefined /\ pass'.thrown = Undefined)
       => configMap' = DefaultAlone(pass'.defaultFile, fsRev, envCache')

C7_ProjectRootContainment ==
  /\ pass.configFile # Undefined => ~OutsideRoot(pass.configFile.s)
  /\ pass.envFile # Undefined => ~OutsideRoot(pass.envFile.s)

-----------------------------------------------------------------------------
(* Claims about escaping, and about the number and date conversions         *)
(* (SpecExpand).                                                             *)

\* The leaf without the backslashes that precede a '$'.
RECURSIVE Unescaped(_)
Unescaped(leaf) ==
  IF leaf = <<>> THEN <<>>
  ELSE IF leaf[1] = "\\" /\ HasAt(leaf, 2, "$") THEN Unescaped(Tail(leaf))
  ELSE <<leaf[1]>> \o Unescaped(Tail(leaf))

\* C11: a leaf in which a backslash precedes the '$' is not expanded: NAME is
\* not looked up (the cache gets no entry for it and no UndefinedEnvVarError is
\* raised), and the result is the leaf itself, with or without the backslash.
C11_EscapedDollarNotExpanded ==
  (Expanded /\ last.arg \in EscapedLeaves) =>
    /\ ~IsError(last.result)
    /\ last.result \in {Str(last.arg), Str(Unescaped(last.arg))}

\* Typed substitutions of A as a number and as a date, in each spelling.
NumberLeaves == {TypedLeaf(VarA, t) : t \in Spellings(NestableDataTypes.Number)}
DateLeaves == {TypedLeaf(VarA, t) : t \in Spellings(NestableDataTypes.Date)}

\* The raw strings that denote a finite number, among those given: a run of
\* decimal digits.
FiniteNumeral(raw) == raw # <<>> /\ \A i \in 1..Len(raw) : IsDigit(raw[i])

ConvertedRaw == Expanded /\ VarA \in DOMAIN procEnv

\* C19: converting to a number returns the finite number the raw string
\* denotes, and raises TypeConversionError for every raw string that denotes
\* none (text, an infinity, a string with no digits).
C19_NumberIsFiniteOrRaises ==
  (ConvertedRaw /\ last.arg \in NumberLeaves) =>
    IF FiniteNumeral(procEnv[VarA])
    THEN last.result = Num(DigitsValue(procEnv[VarA]))
    ELSE Raised("TypeConversionError")

\* C20: converting to a date returns the date at that many milliseconds for a
\* finite number, the parsed date for a date string, and raises
\* TypeConversionError otherwise; an invalid date is never returned.  The
\* empty string, which Number() reads as 0, may give either outcome.
C20_DateIsValidOrRaises ==
  (ConvertedRaw /\ last.arg \in DateLeaves) =>
    IF FiniteNumeral(procEnv[VarA])
    THEN last.result = [t |-> "date", ms |-> DigitsValue(procEnv[VarA])]
    ELSE IF procEnv[VarA] = <<>>
    THEN last.result = [t |-> "date", ms |-> 0] \/ Raised("TypeConversionError")
    ELSE IF DateParse(procEnv[VarA]).t = "num"
    THEN last.result = [t |-> "date", ms |-> DateParse(procEnv[VarA]).n]
    ELSE Raised("TypeConversionError")

-----------------------------------------------------------------------------
(* The EnvParser store on its own: get, set, delete and refresh, with        *)
(* process.env also changed by code outside the library.                     *)

StoreKeys == {VarA, VarB}
StoreValues == { <<"5">>, <<"7">> }

StoreEnvs ==
  { EmptyFcn, OneVar(VarA, <<"5">>), setEnvValueEnv(OneVar(VarB, <<"x">>), VarA, <<"7">>) }

InitStore ==
  /\ argv = <<>>
  /\ procEnv \in StoreEnvs
  /\ fsRev = 1
  /\ StaticInit

\* EnvParser.getString(key)
GetString(key) ==
  \E r \in {getStringFromEnv(envCache, procEnv, key)} :
    /\ envCache' = r.cache
    /\ last' = Call("getString", key, "absent", TRUE, r.v)
    /\ UNCHANGED <<argv, procEnv, fsRev, configVars, changes>>

\* EnvParser.setEnvValue(key, value)
SetEnvValue(key, value) ==
  /\ procEnv' = setEnvValueEnv(procEnv, key, value)
  /\ envCache' = setEnvValueCache(envCache, key, value)
  /\ last' = Call("setEnvValue", <<key, value>>, "absent", TRUE, Undefined)
  /\ UNCHANGED <<argv, fsRev, configVars, changes>>

\* EnvParser.deleteEnvValue(key)
DeleteEnvValue(key) ==
  /\ procEnv' = deleteEnvValueEnv(procEnv, key)
  /\ envCache' = deleteEnvValueCache(envCache, key)
  /\ last' = Call("deleteEnvValue", key, "absent", TRUE, Undefined)
  /\ UNCHANGED <<argv, fsRev, configVars, changes>>

NextStore ==
  \/ \E key \in StoreKeys : GetString(key)
  \/ \E key \in StoreKeys, value \in StoreValues : SetEnvValue(key, value)
  \/ \E key \in StoreKeys : DeleteEnvValue(key)
  \/ RefreshCache
  \/ \E key \in StoreKeys, value \in StoreValues : SetProcessEnv(key, value)
  \/ \E key \in StoreKeys : DeleteProcessEnv(key)

SpecStore == InitStore /\ [][NextStore]_vars

-----------------------------------------------------------------------------
(* Claims about the store (SpecStore).                                       *)

\* What get(key) returns or raises with this cache and this process.env.
WouldGet(cache, env, key) == getStringFromEnv(cache, env, key).v

\* get(key) returns value and process.env holds value under key.
Holds(cache, env, key, value) ==
  /\ key \in DOMAIN env /\ env[key] = value
  /\ WouldGet(cache, env, key) = Str(value)

\* The step just taken is a set, a delete or a refresh that touches key, or a
\* change of key made outside the store.
Touched(call, key) ==
  \/ call.op = "refreshCache"
  \/ call.op = "setEnvValue" /\ call.arg[1] = key
  \/ call.op \in {"deleteEnvValue", "process.env"} /\ call.arg = key

\* C15: set(key, value) leaves get(key) returning value and process.env holding
\* value, whatever the cache held for key before; every step that is no set,
\* delete or refresh touching key keeps it so, and a get(key) taken meanwhile
\* returns value.
C15_WriteThroughSet ==
  [][\A key \in StoreKeys :
       /\ (last'.op = "setEnvValue" /\ last'.arg[1] = key)
             => Holds(envCache', procEnv', key, last'.arg[2])
       /\ \A value \in StoreValues :
             (Holds(envCache, procEnv, key, value) /\ ~Touched(last', key))
               => /\ Holds(envCache', procEnv', key, value)
                  /\ (last'.op = "getString" /\ last'.arg = key)
                        => last'.result = Str(value)]_vars

\* A set of A that replaced a cached absent marker or a cached other value.
C15_Witness ==
  /\ last.op = "setEnvValue" /\ last.arg = <<VarA, <<"7">>>>
  /\ envCache[VarA] = Str(<<"7">>) /\ procEnv[VarA] = <<"7">>
  /\ VarB \in DOMAIN envCache /\ envCache[VarB] = Undefined

\* Every key other than key has the same cached and real value in both states.
OthersUnchanged(key) ==
  \A k \in StoreKeys \ {key} :
    /\ (k \in DOMAIN procEnv) = (k \in DOMAIN procEnv')
    /\ k \in DOMAIN procEnv => procEnv'[k] = procEnv[k]
    /\ (k \in DOMAIN envCache) = (k \in DOMAIN envCache')
    /\ k \in DOMAIN envCache => envCache'[k] = envCache[k]

\* C16: delete(key) leaves process.env without key and get(key) raising
\* UndefinedEnvVarError, whatever was cached or set before, and changes the
\* cached and real value of no other key; a get(key) of a key that neither
\* side holds raises UndefinedEnvVarError.
C16_DeleteRemovesFromBoth ==
  [][\A key \in StoreKeys :
       /\ (last'.op = "deleteEnvValue" /\ last'.arg = key)
             => /\ key \notin DOMAIN procEnv'
                /\ WouldGet(envCache', procEnv', key) = UndefinedEnvVarError(key)
                /\ OthersUnchanged(key)
       /\ (last'.op = "getString" /\ last'.arg = key
            /\ key \notin DOMAIN procEnv /\ key \notin DOMAIN envCache)
             => last'.result = UndefinedEnvVarError(key)]_vars

\* A delete of A, which had a value, while B keeps its cached value.
C16_Witness ==
  /\ last.op = "deleteEnvValue" /\ last.arg = VarA
  /\ VarA \notin DOMAIN procEnv /\ VarA \notin DOMAIN envCache
  /\ VarB \in DOMAIN envCache /\ envCache[VarB] = Str(<<"x">>)

\* C17: right after refresh() the cache holds exactly the variables of
\* process.env, each with its current value, and no absent marker.
C17_RefreshIsSnapshot ==
  last.op = "refreshCache" =>
    /\ DOMAIN envCache = DOMAIN procEnv
    /\ \A k \in DOMAIN envCache : envCache[k] = Str(procEnv[k])

\* A refresh after process.env was changed from outside, with a variable set.
C17_Witness ==
  /\ last.op = "refreshCache" /\ changes = 1
  /\ VarA \in DOMAIN envCache /\ VarB \notin DOMAIN procEnv

-----------------------------------------------------------------------------
(* Claims about references to undefined variables, about get, and about the  *)
(* registry of environment names (Spec).                                     *)

\* The string leaves of a document node, at any depth.
RECURSIVE StringLeaves(_)
StringLeaves(node) ==
  CASE node.t = "str" -> {node.s}
    [] node.t = "arr" -> UNION {StringLeaves(node.a[i]) : i \in DOMAIN node.a}
    [] node.t = "obj" -> UNION {StringLeaves(node.e[i][2]) : i \in DOMAIN node.e}
    [] OTHER -> {}

\* The names a leaf refers to: the NAME of a typed substitution, or the NAME of
\* each ${NAME} occurrence.
References(leaf) ==
  IF HasAt(leaf, 1, "$") /\ MatchTyped(leaf).matched
  THEN {MatchTyped(leaf).varName}
  ELSE {SubSeq(leaf, p[1] + 2, p[2] - 1) :
          p \in {q \in Positions(leaf) \X Positions(leaf) : RefAt(leaf, q[1], q[2])}}

\* The last step was a pass that selected an environment document.
PassOverDocument == last.op = "configure" /\ last.ran /\ pass.configFile # Undefined

\* C12: a pass over a document one of whose string leaves refers to a variable
\* without a value raises UndefinedEnvVarError.
C12_UndefinedReferenceFailsPass ==
  (/\ PassOverDocument
   /\ \E leaf \in StringLeaves(DocAt(pass.configFile)) :
        \E name \in References(leaf) : name \notin DOMAIN procEnv)
    => Raised("UndefinedEnvVarError")

\* The segments of a lookup key: split at each dot that no backslash precedes,
\* with every escaped dot written back as a dot.
RECURSIVE EscapedSegments(_, _)
EscapedSegments(key, segment) ==
  IF key = <<>> THEN <<segment>>
  ELSE IF key[1] = "\\" /\ HasAt(key, 2, ".")
  THEN EscapedSegments(SubSeq(key, 3, Len(key)), segment \o <<".">>)
  ELSE IF key[1] = "."
  THEN <<segment>> \o EscapedSegments(Tail(key), <<>>)
  ELSE EscapedSegments(Tail(key), segment \o <<key[1]>>)

\* The node a sequence of segments leads to in a tree, or the error of a
\* lookup that finds a segment missing or a node that is no Mapping.
RECURSIVE NodeAt(_, _, _)
NodeAt(node, segments, key) ==
  IF segments = <<>> THEN node
  ELSE IF node.t # "map" THEN UndefinedConfigValueError(key)
  ELSE IF Str(segments[1]) \notin DOMAIN node.m THEN UndefinedConfigValueError(key)
  ELSE NodeAt(node.m[Str(segments[1])], Tail(segments), key)

HasEscapedDot(key) == \E i \in 1..(Len(key) - 1) : key[i] = "\\" /\ key[i + 1] = "."

\* C13: get of a key with an escaped dot returns the node stored under the
\* segment with the dot in it.
C13_EscapedDotAddressesOneKey ==
  (last.op = "get" /\ HasEscapedDot(last.arg)) =>
    last.result = NodeAt(MapOf(configMap), EscapedSegments(last.arg, <<>>), last.arg)

\* C14: get(key) returns the node its segments lead to, raises
\* UndefinedConfigValueError when a segment is missing or the node reached
\* before a further segment is a scalar or a Sequence, and leaves the tree
\* unchanged.
C14_GetRaisesOnMissingSegment ==
  [][(last'.op = "get" /\ ~HasEscapedDot(last'.arg)) =>
       /\ configMap' = configMap
       /\ last'.result = NodeAt(MapOf(configMap), Split(last'.arg, "."), last'.arg)]_vars

\* get("x.i") raised: x holds a scalar; the tree still holds x.
C14_Witness ==
  /\ CompletedPass
  /\ last.op = "get" /\ last.arg = <<"x",".","i">>
  /\ Str(<<"x">>) \in DOMAIN configMap /\ configMap[Str(<<"x">>)].t = "str"
  /\ last.result = UndefinedConfigValueError(<<"x",".","i">>)

\* The registry the precedence rule gives.
RegistryByPrecedence(args, env) ==
  IF \E i \in DOMAIN args : StartsWith(args[i], COMMAND_LINE_ARGS.ENV_NAMES)
  THEN LET i == CHOOSE n \in DOMAIN args :
                  StartsWith(args[n], COMMAND_LINE_ARGS.ENV_NAMES)
                  /\ \A m \in 1..(n - 1) : ~StartsWith(args[m], COMMAND_LINE_ARGS.ENV_NAMES)
       IN  LowerCasedNames(SubSeq(args[i], Len(COMMAND_LINE_ARGS.ENV_NAMES) + 1, Len(args[i])))
  ELSE IF ENV_ARGS.ENV_NAMES \in DOMAIN env THEN LowerCasedNames(env[ENV_ARGS.ENV_NAMES])
  ELSE Values(Environments)

\* C18: in every pass the registry is the lower-cased list of --env-names=,
\* else of ENV_NAMES, else the built-in four names, and the environment-derived
\* paths are those of the names in the registry.
C18_EnvironmentNameRegistry ==
  [][(last'.op = "configure" /\ last'.ran) =>
       /\ environments' = RegistryByPrecedence(argv, procEnv)
       /\ DOMAIN envPaths' = environments'
       /\ DOMAIN configPaths' = environments']_vars

-----------------------------------------------------------------------------
(* Claims about the map conversion and about the typed grammar (SpecExpand). *)

\* Typed substitutions of A as a map with the default key and value types.
MapLeaves == {TypedLeaf(VarA, t) : t \in Spellings(NonNestableDataTypes.Map)}

\* The Map of a JSON object whose keys and values are kept as strings.
StringMapOf(object) ==
  MapOf([k \in {Str(object.e[i][1]) : i \in DOMAIN object.e} |->
           Str(JSString(object.e[CHOOSE i \in DOMAIN object.e : Str(object.e[i][1]) = k][2]))])

\* C21: converting to a map returns the Map of the entries for a raw string
\* that is a JSON object, and raises TypeConversionError for a raw string that
\* is not valid JSON or whose JSON value is not an object.
C21_MapOnlyOfJSONObject ==
  (ConvertedRaw /\ last.arg \in MapLeaves) =>
    IF JSONParse(procEnv[VarA]).t = "obj"
    THEN last.result = StringMapOf(JSONParse(procEnv[VarA]))
    ELSE Raised("TypeConversionError")

\* C25: a leaf that starts with '$', does not match the typed grammar and has
\* no ${NAME} is returned unchanged, and NAME is not looked up: the cache gets
\* no entry.
C25_OnlyWholeGrammarMatches ==
  [][(last'.op = "expandEnvVar" /\ last'.arg \in MalformedLeaves) =>
       /\ last'.result = Str(last'.arg)
       /\ envCache' = envCache]_vars

-----------------------------------------------------------------------------
(* Claims about cached misses and about the coherence of the cache           *)
(* (SpecStore).                                                              *)

\* The cache holds the absent marker for key.
CachedMiss(cache, key) == key \in DOMAIN cache /\ cache[key] = Undefined

C29_CacheCoherence ==
  changes = 0 =>
    \A key \in DOMAIN envCache :
      envCache[key] = (IF key \in DOMAIN procEnv THEN Str(procEnv[key]) ELSE Undefined)

\* A cached value of A written by set and a cached miss of B, with no change
\* made from outside.
C29_Witness ==
  /\ changes = 0
  /\ last.op = "getString" /\ last.arg = VarB /\ CachedMiss(envCache, VarB)
  /\ VarA \in DOMAIN envCache /\ envCache[VarA] = Str(<<"7">>) /\ procEnv[VarA] = <<"7">>

-----------------------------------------------------------------------------
(* Claims about what a forced pass keeps from the pass before, about a pass  *)
(* that fails, and about the .env file (Spec).                               *)

\* The step is a pass that was not skipped.
PassStep == last'.op = "configure" /\ last'.ran

\* C22: a forced pass that finds neither --env= nor NODE_ENV makes
\* "development" the active environment, whatever it was before.
C22_EnvironmentAfreshEachPass ==
  [][(/\ PassStep /\ last'.force = "true"
      /\ FirstArgValue(argv, COMMAND_LINE_ARGS.ENV) = Undefined
      /\ ENV_ARGS.ENV \notin DOMAIN procEnv)
       => environment' = Environments.DEVELOPMENT]_vars

\* The last pass raised one of the errors of expansion and conversion.
FailedPass ==
  /\ IsError(pass.thrown)
  /\ pass.thrown.name \in {"UndefinedEnvVarError", "UnsupportedTypeError", "TypeConversionError"}

\* C23: after a pass that failed, a get returns no value of the tree that pass
\* had built so far: it raises, or its first segment was in the tree already
\* before the pass.
C23_FailedPassIsAtomic ==
  (FailedPass /\ last.op = "get") =>
    \/ IsError(last.result)
    \/ Str(Split(last.arg, ".")[1]) \in pass.prevKeys

\* <configDir>/config/default.json
DefaultDocumentPath(dir) ==
  dir \o <<"/","c","o","n","f","i","g","/","d","e","f","a","u","l","t">> \o FileTypes.JSON

\* C24: the default document a pass loads is the one of the config directory
\* resolved in that pass, and none when that one is not valid.
C24_DefaultOfThisPassDirectory ==
  [][(PassStep /\ ~IsError(last'.result)) =>
       pass'.defaultFile =
         IF isValidConfigFile(FileSystem(fsRev), DefaultDocumentPath(configDir'))
         THEN Str(DefaultDocumentPath(configDir'))
         ELSE Undefined]_vars

\* The first .env candidate that exists and is no directory.
FirstEnvFile(fs, candidates) ==
  FirstValid(candidates,
             [i \in DOMAIN candidates |->
                existsSync(fs, candidates[i]) /\ ~isDirectory(fs, candidates[i])])

\* C26: a pass skips the .env candidates that do not exist or are directories,
\* selects the first of the others in the order --env-path=, ENV_PATH, the
\* path of the environment, and does not raise because of a skipped one.
C26_InvalidEnvFileIsSkipped ==
  (last.op = "configure" /\ last.ran) =>
    /\ ~Raised("EISDIR")
    /\ pass.envFile =
         FirstEnvFile(FileSystem(pass.rev),
                      Candidates(argv, procEnv, COMMAND_LINE_ARGS.ENV_PATH, ENV_ARGS.ENV_PATH,
                                 IF environment \in DOMAIN envPaths
                                 THEN <<envPaths[environment]>> ELSE <<>>))

\* The variables the .env file selected by the last pass defines.
DefinedByEnvFile == DOMAIN FileSystem(pass.rev)[pass.envFile.s].dotenv

\* C28: after a pass that selected a .env file, every variable the file
\* defines is in process.env and in the store's snapshot with that value, and
\* the pass did not fail to resolve one of them in a document.
C28_EnvFileBeforeSnapshotBeforeExpansion ==
  (last.op = "configure" /\ last.ran /\ pass.envFile # Undefined /\ ~Raised("EISDIR")) =>
    /\ \A k \in DefinedByEnvFile :
         /\ k \in DOMAIN procEnv
         /\ k \in DOMAIN envCache /\ envCache[k] = Str(procEnv[k])
    /\ ~(Raised("UndefinedEnvVarError") /\ last.result.arg \in DefinedByEnvFile)

\* A pass loaded B from the .env file and a default document that refers to B,
\* and the tree holds the value of B.
C28_Witness ==
  /\ last.op = "configure" /\ last.ran /\ CompletedPass
  /\ pass.added = {VarB}
  /\ pass.defaultFile = Str(Path.DirDefault)
  /\ Str(<<"w">>) \in DOMAIN configMap /\ configMap[Str(<<"w">>)] = Str(<<"1">>)

\* C30: a forced pass removes from process.env the variables the .env load of
\* the pass before had added, unless its own .env file defines them, and keeps
\* every other variable with its value.
C30_ResetRemovesWhatWasAdded ==
  [][(PassStep /\ last'.force = "true") =>
       \A k \in DOMAIN procEnv :
         IF k \in pass.added
         THEN k \in DOMAIN procEnv' =>
                /\ pass'.envFile # Undefined
                /\ k \in DOMAIN FileSystem(fsRev)[pass'.envFile.s].dotenv
         ELSE k \in DOMAIN procEnv' /\ procEnv'[k] = procEnv[k]]_vars

====
